---- MODULE Spec2Model ----
(***************************************************************************)
(* A model of scripts/pc2grid_merge.py: merge(outfile, infiles) sums the   *)
(* count layer (band 0) of a list of raster tiles and computes the         *)
(* count-weighted mean of every further band.                              *)
(*                                                                         *)
(* World coordinates are integers; the base pixel is 2 units wide so that  *)
(* half-pixel offsets are integers too.  Pixel centres (to_x, to_y) are    *)
(* carried doubled (ToX2, ToY2) to stay in the integers; to_c and to_r     *)
(* divide and truncate towards zero as Python's int() does.  Cell values   *)
(* are integers; the float32 quotient sums/counts is kept as a reduced     *)
(* fraction [n, d], so float rounding is outside the model.                *)
(***************************************************************************)
EXTENDS Integers, Sequences, FiniteSets, TLC

VARIABLES args,     \* sys.argv[2:], the files as given (line 125)
          infiles,  \* the list after infiles.sort (line 63)
          grid,     \* cols, rows, bands and trans of the output (lines 65-66)
          sums,     \* line 72
          counts,   \* line 73
          b,        \* the band loop's index (line 75)
          i,        \* the tile loop's position in infiles, from 1 (line 84)
          out,      \* the bands written to the output file (lines 113, 118)
          pc,       \* where merge is
          err,      \* the exception that ended merge, or "none"
          log       \* history: the tiles opened and the bands written, in order

vars == <<args, infiles, grid, sums, counts, b, i, out, pc, err, log>>

(* ------------------------------------------------------------------ *)
(* Bounds and the input universe                                      *)
(* ------------------------------------------------------------------ *)

\* The longest argument list.
MaxFiles == 2

\* nd = -9999. (line 78)
nd == -9999

\* Path components as sequences of character codes: directories d1, d2 and
\* the base names a, b.
DirD1 == <<4, 1>>
DirD2 == <<4, 2>>
NameA == <<1>>
NameB == <<2>>

Paths == {<<DirD1, NameA>>, <<DirD2, NameA>>, <<DirD1, NameB>>}

\* A tile file's content: its geotransform (x0 = trans[0], resx = trans[1],
\* y0 = trans[3], resy = trans[5]), its size, its no-data sentinel (the same
\* in every band) and its bands.  data[k][c1 + 1] is the value of band k (GDAL's 1-based
\* band number) in column c1 of every row.
Tile(x0, y0, resx, resy, cols, rows, nodata, data) ==
    [x0 |-> x0, y0 |-> y0, resx |-> resx, resy |-> resy,
     cols |-> cols, rows |-> rows, nodata |-> nodata, data |-> data]

BaseData == << <<2, 2>>, <<10, 10>> >>

\* Tiles that differ from the base tile in their geometry.
GeomTiles ==
    { Tile(0, 0, 2, -2, 2, 2, nd, BaseData),      \* the base tile
      Tile(2, 0, 2, -2, 2, 2, nd, BaseData),      \* one column to the right
      Tile(1, 0, 2, -2, 2, 2, nd, BaseData),      \* half a pixel to the right
      Tile(0, -1, 2, -2, 2, 1, nd, BaseData),     \* half a pixel down, one row
      Tile(4, 0, 2, -2, 2, 1, nd, BaseData),      \* disjoint, one row
      Tile(0, 0, 4, -2, 2, 2, nd, BaseData),      \* pixels twice as wide
      Tile(0, 0, 2, -4, 2, 2, nd, BaseData) }     \* pixels twice as high

\* Tiles that differ from the base tile in their bands.
DataTiles ==
    { Tile(2, 0, 2, -2, 2, 2, nd, << <<3, 3>>, <<20, 20>> >>),
      Tile(0, 0, 2, -2, 2, 2, nd, << <<0, 0>>, <<nd, nd>> >>),
      Tile(0, 0, 2, -2, 2, 2, nd, << <<2, 3>>, <<nd, nd>> >>),
      Tile(0, 0, 2, -2, 2, 2, nd, << <<nd, 2>>, <<10, 20>> >>),
      Tile(0, 0, 2, -2, 2, 2, -1, << <<2, 2>>, <<-1, 10>> >>),
      Tile(0, 0, 2, -2, 2, 2, -1, << <<2, 2>>, <<nd, 10>> >>),
      Tile(0, 0, 2, -2, 2, 2, -1, << <<-1, 2>>, <<10, 10>> >>),
      Tile(0, 0, 2, -2, 2, 2, nd, << <<2, 3>>, <<10, 20>>, <<20, nd>> >>) }

Tiles == GeomTiles \cup DataTiles

File(path, tile) == [path |-> path, tile |-> tile]

(* ------------------------------------------------------------------ *)
(* Arithmetic                                                         *)
(* ------------------------------------------------------------------ *)

Abs(x) == IF x < 0 THEN -x ELSE x

Min(x, y) == IF x < y THEN x ELSE y

Max(x, y) == IF x > y THEN x ELSE y

\* int(p / q): Python's int() of a float quotient truncates towards zero.
Trunc(p, q) ==
    IF (p >= 0) = (q > 0) THEN Abs(p) \div Abs(q) ELSE -(Abs(p) \div Abs(q))

RECURSIVE GCD(_, _)
GCD(x, y) == IF y = 0 THEN x ELSE GCD(y, x % y)

\* The quotient n / d, d > 0, as a reduced fraction.
Frac(n, d) ==
    LET g == GCD(Abs(n), d)
    IN  [n |-> n \div g, d |-> d \div g]

\* A whole number as a fraction.
Whole(n) == [n |-> n, d |-> 1]

(* ------------------------------------------------------------------ *)
(* Sorting the file list (line 63)                                    *)
(* ------------------------------------------------------------------ *)

\* s < t for strings as sequences of character codes.
RECURSIVE LexLess(_, _)
LexLess(s, t) ==
    IF t = <<>> THEN FALSE
    ELSE IF s = <<>> THEN TRUE
    ELSE IF Head(s) # Head(t) THEN Head(s) < Head(t)
    ELSE LexLess(Tail(s), Tail(t))

\* os.path.basename: the last component of the path.
Basename(path) == path[Len(path)]

\* The whole path as one string, its components joined by the separator (0).
FullPath(path) == path[1] \o <<0>> \o path[2]

\* A sort on the whole path instead of the base name.
SortKeyFullPath(f) == FullPath(f.path)

\* key = lambda a: os.path.basename(a)
SortKey(f) == Basename(f.path)

\* list.sort is stable: an element goes behind every element whose key is
\* not greater than its own.
RECURSIVE InsertSorted(_, _)
InsertSorted(f, s) ==
    IF s = <<>> THEN <<f>>
    ELSE IF LexLess(SortKey(f), SortKey(Head(s))) THEN <<f>> \o s
    ELSE <<Head(s)>> \o InsertSorted(f, Tail(s))

RECURSIVE SortFiles(_)
SortFiles(s) ==
    IF s = <<>> THEN <<>>
    ELSE InsertSorted(s[Len(s)], SortFiles(SubSeq(s, 1, Len(s) - 1)))

(* ------------------------------------------------------------------ *)
(* get_bounds and the coordinate maps (lines 19-59)                   *)
(* ------------------------------------------------------------------ *)

\* ds.RasterCount
RasterCount(t) == Len(t.data)

\* The extent of one tile: [min x, min y, max x, max y] (lines 34-42).
TileExtent(t) ==
    LET x1 == t.x0
        y1 == t.y0
        x2 == x1 + t.cols * t.resx
        y2 == y1 + t.rows * t.resy
    IN  <<Min(x1, x2), Min(y1, y2), Max(x1, x2), Max(y1, y2)>>

\* The bounds accumulated over the tiles of fs (lines 21-42); fs is not empty.
RECURSIVE Bounds(_)
Bounds(fs) ==
    LET e == TileExtent(fs[Len(fs)].tile)
    IN  IF Len(fs) = 1 THEN e
        ELSE LET p == Bounds(SubSeq(fs, 1, Len(fs) - 1))
             IN  <<Min(p[1], e[1]), Min(p[2], e[2]),
                   Max(p[3], e[3]), Max(p[4], e[4])>>

\* get_bounds(infiles) for a list that is not empty: resx, resy and bands are
\* those of the last file the loop opened.
get_bounds(fs) ==
    LET bounds == Bounds(fs)
        last   == fs[Len(fs)].tile
    IN  [bounds |-> bounds, resx |-> last.resx, resy |-> last.resy,
         cols  |-> Trunc(bounds[3] - bounds[1], Abs(last.resx)),
         rows  |-> Trunc(bounds[4] - bounds[2], Abs(last.resy)),
         bands |-> RasterCount(last)]

\* Lines 65-66: the output grid and its geotransform.
OutputGrid(fs) ==
    LET g == get_bounds(fs)
    IN  [x0 |-> IF g.resx > 0 THEN g.bounds[1] ELSE g.bounds[3],
         y0 |-> IF g.resy > 0 THEN g.bounds[2] ELSE g.bounds[4],
         resx |-> g.resx, resy |-> g.resy,
         cols |-> g.cols, rows |-> g.rows, bands |-> g.bands]

\* Twice to_x(c, trans) = trans[0] + c * trans[1] + 0.5 * trans[1].
ToX2(c, trans) == 2 * trans.x0 + 2 * c * trans.resx + trans.resx

\* Twice to_y(r, trans).
ToY2(r, trans) == 2 * trans.y0 + 2 * r * trans.resy + trans.resy

\* to_c(x, trans) = int((x - trans[0]) / trans[1]), x given doubled.
ToC(x2, trans) == Trunc(x2 - 2 * trans.x0, 2 * trans.resx)

\* to_r(y, trans), y given doubled.
ToR(y2, trans) == Trunc(y2 - 2 * trans.y0, 2 * trans.resy)

(* ------------------------------------------------------------------ *)
(* One tile in one band's pass (lines 84-110)                         *)
(* ------------------------------------------------------------------ *)

\* An index of a Python slice brought into 0..n.
SliceIndex(k, n) == IF k < 0 THEN Max(k + n, 0) ELSE Min(k, n)

\* band1.ReadAsArray(0, r1, colst, 1)[0, k] and GetRasterBand(1)'s alike:
\* the value of GDAL band number k in column c1 (every row holds the same).
Pixel(t, band, c1) == t.data[band][c1 + 1]

\* idx = vbuf[0,...] != nd (lines 103 and 109): the cells left out.
Masked(t, v) == v = nd

\* What an unmasked cell adds: its value in band 0 (line 104), its value
\* times the same tile's count in a value band (lines 107-110).
Addend(t, bnd, c1) ==
    IF bnd = 0 THEN Pixel(t, 1, c1)
    ELSE Pixel(t, bnd + 1, c1) * Pixel(t, 1, c1)

\* cols1 and rows1 of line 86: get_bounds([f]) of the one tile.
Cols1(t) == get_bounds(<<[tile |-> t]>>).cols

Rows1(t) == get_bounds(<<[tile |-> t]>>).rows

\* Where row r1 of tile t goes in the output (lines 93-99).
RowTarget(g, t, r1) ==
    LET c == ToC(ToX2(0, t), g)
        r == ToR(ToY2(r1, t), g)
    IN  [c |-> c, r |-> r, colst |-> Min(g.cols - c, Cols1(t))]

\* A sum and a number added, the sum kept as a fraction.
AddTo(cell, x) == Frac(cell.n + x * cell.d, cell.d)

\* Lines 93-110 for one row: the buffer after it, or the exception.  buf is
\* counts in band 0 and sums in a value band; counts holds numbers and sums
\* fractions.
AccumulateRow(buf, g, t, bnd, r1) ==
    LET w  == RowTarget(g, t, r1)
        lo == SliceIndex(w.c, g.cols)
        hi == SliceIndex(w.c + w.colst, g.cols)
        rr == IF w.r < 0 THEN w.r + g.rows ELSE w.r
        hit(c) == /\ c >= lo
                  /\ c < lo + w.colst
                  /\ ~Masked(t, Pixel(t, bnd + 1, c - lo))
    IN  IF w.colst <= 0
        THEN [buf |-> buf, err |-> "TypeError"]     \* no strip to read
        ELSE IF w.r >= g.rows \/ w.r < -g.rows
        THEN [buf |-> buf, err |-> "IndexError"]    \* no such row
        ELSE IF Max(hi - lo, 0) # w.colst
        THEN [buf |-> buf, err |-> "IndexError"]    \* idx does not fit
        ELSE [buf |-> [r \in 0..(g.rows - 1) |->
                        [c \in 0..(g.cols - 1) |->
                          IF r = rr /\ hit(c)
                          THEN IF bnd = 0
                               THEN buf[r][c] + Addend(t, bnd, c - lo)
                               ELSE AddTo(buf[r][c], Addend(t, bnd, c - lo))
                          ELSE buf[r][c]]],
              err |-> "none"]

\* The rows of the tile from r1 on (line 92), until one raises.
RECURSIVE AccumulateRows(_, _, _, _, _)
AccumulateRows(buf, g, t, bnd, r1) ==
    IF r1 >= Rows1(t) THEN [buf |-> buf, err |-> "none", rows |-> r1]
    ELSE LET s == AccumulateRow(buf, g, t, bnd, r1)
         IN  IF s.err # "none"
             THEN [buf |-> s.buf, err |-> s.err, rows |-> r1]
             ELSE AccumulateRows(s.buf, g, t, bnd, r1 + 1)

\* Lines 86-110 for one tile: GetRasterBand(b + 1) of a tile without that
\* band is None, and None.GetNoDataValue() raises before any row is read.
AccumulateTile(buf, g, t, bnd) ==
    IF bnd + 1 > RasterCount(t)
    THEN [buf |-> buf, err |-> "AttributeError", rows |-> 0]
    ELSE AccumulateRows(buf, g, t, bnd, 0)

\* Finalization without line 117: a cell of count zero keeps its sum.
FinalizeWithoutSentinel(s, cnt, g) ==
    [r \in 0..(g.rows - 1) |->
      [c \in 0..(g.cols - 1) |->
        IF cnt[r][c] > 0 THEN Frac(s[r][c].n, s[r][c].d * cnt[r][c])
        ELSE s[r][c]]]

\* Lines 116-117: the weighted mean where counts > 0, nd where counts == 0;
\* a cell with a negative count keeps its sum.
Finalize(s, cnt, g) ==
    [r \in 0..(g.rows - 1) |->
      [c \in 0..(g.cols - 1) |->
        IF cnt[r][c] > 0 THEN Frac(s[r][c].n, s[r][c].d * cnt[r][c])
        ELSE IF cnt[r][c] = 0 THEN Whole(nd)
        ELSE s[r][c]]]

\* np.zeros(...).reshape((rows, cols)) (lines 72-73) and sums.fill(0.) (line 82).
ZeroCounts(g) == [r \in 0..(g.rows - 1) |-> [c \in 0..(g.cols - 1) |-> 0]]

ZeroSums(g) == [r \in 0..(g.rows - 1) |-> [c \in 0..(g.cols - 1) |-> Whole(0)]]

(* ------------------------------------------------------------------ *)
(* merge as a function of its argument list (lines 61-118)            *)
(* ------------------------------------------------------------------ *)

\* The tile loop (line 84) of one band from position k on.
RECURSIVE TilePass(_, _, _, _, _)
TilePass(buf, g, fs, bnd, k) ==
    IF k > Len(fs) THEN [buf |-> buf, err |-> "none"]
    ELSE LET s == AccumulateTile(buf, g, fs[k].tile, bnd)
         IN  IF s.err # "none" THEN [buf |-> s.buf, err |-> s.err]
             ELSE TilePass(s.buf, g, fs, bnd, k + 1)

\* The band loop (line 75) from band bnd on: cnt is the counts buffer and
\* written the bands written so far.
RECURSIVE BandPass(_, _, _, _, _)
BandPass(cnt, written, g, fs, bnd) ==
    IF bnd >= g.bands THEN [err |-> "none", grid |-> g, out |-> written]
    ELSE LET s == TilePass(IF bnd = 0 THEN cnt ELSE ZeroSums(g), g, fs, bnd, 1)
         IN  IF s.err # "none"
             THEN [err |-> s.err, grid |-> g, out |-> written]
             ELSE IF bnd = 0
             THEN BandPass(s.buf, Append(written, s.buf), g, fs, 1)
             ELSE BandPass(cnt, Append(written, Finalize(s.buf, cnt, g)),
                           g, fs, bnd + 1)

\* What merge(outfile, a) leaves: the exception that ended it, the output
\* grid and the bands written.  get_bounds of an empty list reads resx
\* before it is assigned (line 44).
MergeResult(a) ==
    IF a = <<>> THEN [err |-> "UnboundLocalError"]
    ELSE LET fs == SortFiles(a)
             g  == OutputGrid(fs)
         IN  BandPass(ZeroCounts(g), <<>>, g, fs, 0)

(* ------------------------------------------------------------------ *)
(* merge step by step                                                 *)
(* ------------------------------------------------------------------ *)

NoGrid == [cols |-> 0, rows |-> 0, bands |-> 0]

Files == {File(p, t) : p \in Paths, t \in Tiles}

\* The argument lists: up to MaxFiles files of different paths.
ArgLists ==
    UNION { {a \in [1..n -> Files] :
               \A j, k \in 1..n : j # k => a[j].path # a[k].path} :
            n \in 0..MaxFiles }

Init ==
    /\ args \in ArgLists
    /\ infiles = <<>>
    /\ grid = NoGrid
    /\ sums = <<>>
    /\ counts = <<>>
    /\ b = 0
    /\ i = 0
    /\ out = <<>>
    /\ pc = "start"
    /\ err = "none"
    /\ log = <<>>

\* Lines 63-73: sort, get_bounds, create the output, allocate the buffers.
Start ==
    /\ pc = "start"
    /\ IF args = <<>>
       THEN /\ pc' = "error"
            /\ err' = "UnboundLocalError"
            /\ UNCHANGED <<infiles, grid, sums, counts>>
       ELSE /\ infiles' = SortFiles(args)
            /\ grid' = OutputGrid(infiles')
            /\ sums' = ZeroSums(grid')
            /\ counts' = ZeroCounts(grid')
            /\ pc' = "band"
            /\ err' = "none"
    /\ UNCHANGED <<args, b, i, out, log>>

\* A band loop that zeroes counts along with sums at the head of every band.
BeginBandResetsCounts ==
    /\ pc = "band"
    /\ sums' = ZeroSums(grid)
    /\ counts' = ZeroCounts(grid)
    /\ i' = 1
    /\ pc' = "tiles"
    /\ UNCHANGED <<args, infiles, grid, b, out, err, log>>

\* Lines 75-82: the head of the band loop; sums.fill(0.).
BeginBand ==
    /\ pc = "band"
    /\ sums' = ZeroSums(grid)
    /\ i' = 1
    /\ pc' = "tiles"
    /\ UNCHANGED <<args, infiles, grid, counts, b, out, err, log>>

\* Lines 84-110: the next tile of the band's pass, all its rows.
ReadTile ==
    /\ pc = "tiles"
    /\ i <= Len(infiles)
    /\ LET f == infiles[i]
           s == AccumulateTile(IF b = 0 THEN counts ELSE sums,
                               grid, f.tile, b)
       IN  /\ IF b = 0
              THEN counts' = s.buf /\ UNCHANGED sums
              ELSE sums' = s.buf /\ UNCHANGED counts
           /\ log' = Append(log, [op |-> "read", band |-> b,
                                  path |-> f.path, rows |-> s.rows])
           /\ IF s.err = "none"
              THEN i' = i + 1 /\ UNCHANGED <<pc, err>>
              ELSE pc' = "error" /\ err' = s.err /\ UNCHANGED i
    /\ UNCHANGED <<args, infiles, grid, b, out>>

\* Lines 112-118: the band is written once its tile loop has ended.
WriteBand ==
    /\ pc = "tiles"
    /\ i > Len(infiles)
    /\ IF b = 0
       THEN /\ out' = Append(out, counts)
            /\ UNCHANGED sums
       ELSE /\ sums' = Finalize(sums, counts, grid)
            /\ out' = Append(out, sums')
    /\ log' = Append(log, [op |-> "write", band |-> b,
                           path |-> <<>>, rows |-> 0])
    /\ b' = b + 1
    /\ pc' = IF b + 1 < grid.bands THEN "band" ELSE "done"
    /\ UNCHANGED <<args, infiles, grid, counts, i, err>>

Next == Start \/ BeginBand \/ ReadTile \/ WriteBand

Spec == Init /\ [][Next]_vars

\* The step-by-step run ends as MergeResult says.
RunMatchesMergeResult ==
    /\ pc = "done" => MergeResult(args) = [err |-> "none", grid |-> grid, out |-> out]
    /\ pc = "error" => MergeResult(args).err = err

(* ------------------------------------------------------------------ *)
(* What the properties speak of                                       *)
(* ------------------------------------------------------------------ *)

\* The sum of f over the finite set S.
RECURSIVE SumOver(_, _)
SumOver(S, f) ==
    IF S = {} THEN 0
    ELSE LET x == CHOOSE y \in S : TRUE
         IN  f[x] + SumOver(S \ {x}, f)

OutRows == 0..(grid.rows - 1)

OutCols == 0..(grid.cols - 1)

\* The value bands of the output, by GDAL band number.
ValueBands == 2..grid.bands

\* The cells <<k, r1, c1>> of the tiles of fs whose footprint holds output
\* cell (r, c): cell (r1, c1) of tile k, whose pixel centre lies in it.
Covering(g, fs, r, c) ==
    { x \in UNION { {<<k, r1, c1>> : r1 \in 0..(fs[k].tile.rows - 1),
                                      c1 \in 0..(fs[k].tile.cols - 1)} :
                    k \in 1..Len(fs) } :
        /\ ToC(ToX2(x[3], fs[x[1]].tile), g) = c
        /\ ToR(ToY2(x[2], fs[x[1]].tile), g) = r }

\* A covering cell's value in a band, and whether it is the tile's no-data.
ValueOf(fs, x, band) == Pixel(fs[x[1]].tile, band, x[3])

IsNoData(fs, x, band) == ValueOf(fs, x, band) = fs[x[1]].tile.nodata

\* The cells of tile t that lines 93-110 add into output cell (r, c).
PlacedAt(g, t, r, c) ==
    { x \in (0..(t.rows - 1)) \X (0..(t.cols - 1)) :
        LET w == RowTarget(g, t, x[1])
        IN  /\ w.r = r
            /\ x[2] < w.colst
            /\ w.c + x[2] = c }

\* The tile's geometry agrees with the output grid's.
Compatible(t, g) ==
    /\ RasterCount(t) = g.bands
    /\ t.resx = g.resx
    /\ t.resy = g.resy

\* The position of path p in the sorted list.
PositionOf(p) == CHOOSE k \in 1..Len(infiles) : infiles[k].path = p

\* The permutations of the list a.
Reorderings(a) ==
    { [k \in 1..Len(a) |-> a[q[k]]] :
        q \in {q \in [1..Len(a) -> 1..Len(a)] :
                 \A j, k \in 1..Len(a) : j # k => q[j] # q[k]} }

\* Every tile agrees with the output grid and uses the output's sentinel.
WellFormedInput ==
    \A k \in 1..Len(infiles) :
        /\ Compatible(infiles[k].tile, grid)
        /\ infiles[k].tile.nodata = nd

\* The count of output cell (r, c) as the tiles give it: the sum of the
\* covering cells' band-0 values that are not their tile's no-data.
TrueCount(r, c) ==
    LET S == {x \in Covering(grid, infiles, r, c) : ~IsNoData(infiles, x, 1)}
    IN  SumOver(S, [x \in S |-> ValueOf(infiles, x, 1)])

\* The weighted sum of band k at output cell (r, c) over the covering cells
\* whose band-k value is not their tile's no-data.
TrueWeightedSum(k, r, c) ==
    LET S == {x \in Covering(grid, infiles, r, c) : ~IsNoData(infiles, x, k)}
    IN  SumOver(S, [x \in S |-> ValueOf(infiles, x, k) * ValueOf(infiles, x, 1)])

\* All covering cells' counts added, none left out.
CoveringCount(r, c) ==
    LET S == Covering(grid, infiles, r, c)
    IN  SumOver(S, [x \in S |-> ValueOf(infiles, x, 1)])

(* ------------------------------------------------------------------ *)
(* C1                                                                 *)
(* ------------------------------------------------------------------ *)

CountSumAt(r, c) == out[1][r][c] = TrueCount(r, c)

\* C1: after merge completes, output band 0 holds at every output cell the
\* sum of the band-0 values of the tiles whose footprint holds the cell and
\* whose value there is not no-data: no tile twice, none left out.
C1_CountSum ==
    pc = "done" => \A r \in OutRows, c \in OutCols : CountSumAt(r, c)

\* C1 on tiles that agree with the output grid and use the sentinel -9999.
C1_CountSumWellFormed ==
    (pc = "done" /\ WellFormedInput) =>
        \A r \in OutRows, c \in OutCols : CountSumAt(r, c)

(* ------------------------------------------------------------------ *)
(* C2                                                                 *)
(* ------------------------------------------------------------------ *)

WeightedMeanAt(k, r, c) ==
    LET S == Covering(grid, infiles, r, c)
    IN  ( /\ S # {}
          /\ \A x \in S : ~IsNoData(infiles, x, 1) /\ ~IsNoData(infiles, x, k)
          /\ CoveringCount(r, c) > 0 )
        => out[k][r][c] = Frac(TrueWeightedSum(k, r, c), CoveringCount(r, c))

\* C2: after merge completes, every value band holds at every output cell
\* covered by tiles with counts c1..cn and values v1..vn, none of them
\* no-data and the counts' sum positive, the mean sum(vi*ci) / sum(ci).
C2_WeightedMean ==
    pc = "done" =>
        \A k \in ValueBands, r \in OutRows, c \in OutCols : WeightedMeanAt(k, r, c)

\* C2 on tiles that agree with the output grid and use the sentinel -9999.
C2_WeightedMeanWellFormed ==
    (pc = "done" /\ WellFormedInput) =>
        \A k \in ValueBands, r \in OutRows, c \in OutCols : WeightedMeanAt(k, r, c)

\* The two tiles of the spec's scenario: A with count 2 and value 10 in
\* columns 0-1, B with count 3 and value 20 in columns 1-2.
ScenarioA == Tile(0, 0, 2, -2, 2, 2, nd, << <<2, 2>>, <<10, 10>> >>)

ScenarioB == Tile(2, 0, 2, -2, 2, 2, nd, << <<3, 3>>, <<20, 20>> >>)

\* C2's scenario: count 5 and value 16 in the shared column, each tile's own
\* count and value in the others.
C2_Scenario ==
    ( /\ pc = "done"
      /\ Len(infiles) = 2
      /\ infiles[1].tile = ScenarioA
      /\ infiles[2].tile = ScenarioB )
    => \A r \in 0..1 :
        /\ out[1][r] = [c \in 0..2 |-> IF c = 0 THEN 2 ELSE IF c = 1 THEN 5 ELSE 3]
        /\ out[2][r] = [c \in 0..2 |-> IF c = 0 THEN Whole(10)
                                       ELSE IF c = 1 THEN Whole(16) ELSE Whole(20)]

(* ------------------------------------------------------------------ *)
(* C3                                                                 *)
(* ------------------------------------------------------------------ *)

\* What tile t adds to output cell (r, c) in band bnd when exactly the cells
\* that hold the tile's own sentinel are left out.
OwnSentinelAddend(g, t, bnd, r, c) ==
    LET S == {x \in PlacedAt(g, t, r, c) : Pixel(t, bnd + 1, x[2]) # t.nodata}
    IN  SumOver(S, [x \in S |-> Addend(t, bnd, x[2])])

\* C3: a tile's pass leaves out of counts (band 0) and of sums (a value
\* band) exactly the cells whose value is that tile's own no-data sentinel,
\* whatever the output's sentinel is.
C3_OwnSentinelMasks ==
    [][ (pc = "tiles" /\ i <= Len(infiles) /\ pc' = "tiles") =>
          \A r \in OutRows, c \in OutCols :
            LET d == OwnSentinelAddend(grid, infiles[i].tile, b, r, c)
            IN  IF b = 0
                THEN counts'[r][c] = counts[r][c] + d
                ELSE sums'[r][c] = AddTo(sums[r][c], d) ]_vars

(* ------------------------------------------------------------------ *)
(* C4                                                                 *)
(* ------------------------------------------------------------------ *)

\* The sum lines 107-110 build for band k at output cell (r, c).
PlacedSum(k, r, c) ==
    LET S == UNION { {<<j, x>> : x \in {y \in PlacedAt(grid, infiles[j].tile, r, c) :
                                   ~Masked(infiles[j].tile,
                                           Pixel(infiles[j].tile, k, y[2]))}} :
                     j \in 1..Len(infiles) }
    IN  SumOver(S, [z \in S |-> Addend(infiles[z[1]].tile, k - 1, z[2][2])])

\* C4: after merge completes, a cell whose accumulated count (output band 0)
\* is zero holds the sentinel -9999 in every value band, covered or not, and
\* a cell with a positive count holds the quotient of its sum by its count.
C4_NoDataPropagation ==
    pc = "done" =>
        \A k \in ValueBands, r \in OutRows, c \in OutCols :
            /\ out[1][r][c] = 0 => out[k][r][c] = Whole(nd)
            /\ out[1][r][c] > 0 =>
                  out[k][r][c] = Frac(PlacedSum(k, r, c), out[1][r][c])

\* A completed merge with a value band, a cell no tile covers, a covered
\* cell of count zero and a cell of positive count.
C4_Witness ==
    /\ pc = "done"
    /\ grid.bands >= 2
    /\ \E r \in OutRows, c \in OutCols :
          /\ Covering(grid, infiles, r, c) = {}
          /\ out[2][r][c] = Whole(nd)
    /\ \E r \in OutRows, c \in OutCols :
          /\ Covering(grid, infiles, r, c) # {}
          /\ out[1][r][c] = 0
          /\ out[2][r][c] = Whole(nd)
    /\ \E r \in OutRows, c \in OutCols :
          /\ out[1][r][c] > 0
          /\ out[2][r][c] # Whole(nd)

(* ------------------------------------------------------------------ *)
(* C5                                                                 *)
(* ------------------------------------------------------------------ *)

\* C5: merge of any permutation of the argument list gives the output
\* raster of the completed run: the same grid and the same cells.
C5_OrderIndependent ==
    pc = "done" =>
        \A p \in Reorderings(args) :
            MergeResult(p) = [err |-> "none", grid |-> grid, out |-> out]

\* C5 on argument lists whose tiles agree with each other in geometry.
C5_OrderIndependentWellFormed ==
    (pc = "done" /\ \A k \in 1..Len(infiles) : Compatible(infiles[k].tile, grid)) =>
        \A p \in Reorderings(args) :
            MergeResult(p) = [err |-> "none", grid |-> grid, out |-> out]

(* ------------------------------------------------------------------ *)
(* C6                                                                 *)
(* ------------------------------------------------------------------ *)

\* Some tile's band count or resolution differs from the output grid's.
GeometryMismatch ==
    \E k \in 1..Len(infiles) : ~Compatible(infiles[k].tile, grid)

\* The logged pass over path p added rows of a tile that is no earlier in
\* the list than a tile that disagrees with the grid.
AccumulatedDespiteMismatch ==
    \E n \in 1..Len(log) :
        /\ log[n].op = "read"
        /\ log[n].rows > 0
        /\ \E k \in 1..PositionOf(log[n].path) :
              ~Compatible(infiles[k].tile, grid)

\* C6: when a tile's band count or resolution differs from the output
\* grid's, merge does not complete and accumulates no row of that tile or
\* of a later one.
C6_GeometryMismatchFatal ==
    (pc # "start" /\ GeometryMismatch) =>
        /\ pc # "done"
        /\ ~AccumulatedDespiteMismatch

(* ------------------------------------------------------------------ *)
(* C7                                                                 *)
(* ------------------------------------------------------------------ *)

\* Row r1 of tile t starts inside the output grid.
RowInGrid(g, t, r1) ==
    LET w == RowTarget(g, t, r1)
    IN  /\ 0 <= w.r /\ w.r < g.rows
        /\ 0 <= w.c /\ w.c < g.cols

\* C7: every tile's top-left pixel centre maps to a row and column inside
\* the output grid or merge fails with BoundsOverflowError; a position
\* outside the grid ends neither in a write to another cell nor in an
\* indexing fault.
C7_AlignedOrBoundsOverflow ==
    /\ pc = "done" =>
          \A k \in 1..Len(infiles) :
              \A r1 \in 0..(infiles[k].tile.rows - 1) :
                  RowInGrid(grid, infiles[k].tile, r1)
    /\ (pc = "error" /\ \E k \in 1..Len(infiles) :
                           \E r1 \in 0..(infiles[k].tile.rows - 1) :
                               ~RowInGrid(grid, infiles[k].tile, r1))
          => err = "BoundsOverflowError"

(* ------------------------------------------------------------------ *)
(* C8                                                                 *)
(* ------------------------------------------------------------------ *)

\* A read of band k at position n of the log.
IsRead(n, k) == log[n].op = "read" /\ log[n].band = k

IsWrite(n, k) == log[n].op = "write" /\ log[n].band = k

\* C8: bands are the outer loop and tiles the inner one.  Within a band's
\* pass no tile is read twice and the tiles are read in the lexicographic
\* order of their base names, whatever the order of the arguments; a band is
\* written when every tile has been read for it, and no tile is read for a
\* band before the band before it is written.
C8_ProcessingOrder ==
    /\ \A m, n \in 1..Len(log) :
          m < n =>
            /\ log[m].band <= log[n].band
            /\ log[m].op = "write" => log[m].band < log[n].band
            /\ (log[m].op = "read" /\ IsRead(n, log[m].band)) =>
                  /\ log[m].path # log[n].path
                  /\ ~LexLess(Basename(log[n].path), Basename(log[m].path))
    /\ \A n \in 1..Len(log) :
          /\ log[n].op = "read" => \E k \in 1..Len(args) : args[k].path = log[n].path
          /\ log[n].op = "write" =>
                \A k \in 1..Len(args) :
                    \E m \in 1..(n - 1) :
                        IsRead(m, log[n].band) /\ log[m].path = args[k].path
          /\ log[n].band > 0 =>
                \E m \in 1..(n - 1) : IsWrite(m, log[n].band - 1)
    /\ Len(out) = Cardinality({n \in 1..Len(log) : log[n].op = "write"})

\* A completed merge of two files given against the order of their base
\* names, with a value band.
C8_Witness ==
    /\ pc = "done"
    /\ Len(args) = 2
    /\ LexLess(Basename(args[2].path), Basename(args[1].path))
    /\ grid.bands >= 2
    /\ Len(log) = grid.bands * 3

(* ------------------------------------------------------------------ *)
(* C9                                                                 *)
(* ------------------------------------------------------------------ *)

\* C9: counts is all zero when the pass of band 0 starts, and once band 0 is
\* written no step changes a cell of counts, so that counts stays what was
\* written as output band 0.
C9_CountsOnlyInBandZero ==
    /\ []((pc = "band" /\ b = 0) => counts = ZeroCounts(grid))
    /\ [](Len(out) >= 1 => counts = out[1])
    /\ [][Len(out) >= 1 => counts' = counts]_vars

\* A completed merge of three bands whose tiles gave counts and, in a value
\* band, no-data cells as well as values.
C9_Witness ==
    /\ pc = "done"
    /\ grid.bands = 3
    /\ \E r \in OutRows, c \in OutCols : counts[r][c] > 0
    /\ \E k \in 1..Len(infiles) :
          \E c1 \in 0..(infiles[k].tile.cols - 1) :
              Pixel(infiles[k].tile, 3, c1) = nd
    /\ \E r \in OutRows, c \in OutCols : out[3][r][c] # Whole(nd)

(* ------------------------------------------------------------------ *)
(* C10                                                                *)
(* ------------------------------------------------------------------ *)

DenominatorAt(k, r, c) ==
    LET S == Covering(grid, infiles, r, c)
    IN  ( /\ \A x \in S : ~IsNoData(infiles, x, 1)
          /\ CoveringCount(r, c) > 0
          /\ \E x \in S : IsNoData(infiles, x, k) /\ ValueOf(infiles, x, 1) > 0 )
        => out[k][r][c] = Frac(TrueWeightedSum(k, r, c), CoveringCount(r, c))

\* C10: where a covering tile's value in band k is no-data and its count is
\* positive, the output is the sum of vi*ci over the tiles whose value is not
\* no-data divided by the sum of the counts of all covering tiles; it is 0
\* when every covering value is no-data.
C10_DenominatorIgnoresMask ==
    pc = "done" =>
        \A k \in ValueBands, r \in OutRows, c \in OutCols : DenominatorAt(k, r, c)

\* C10 on tiles that agree with the output grid and use the sentinel -9999.
C10_DenominatorWellFormed ==
    (pc = "done" /\ WellFormedInput) =>
        \A k \in ValueBands, r \in OutRows, c \in OutCols : DenominatorAt(k, r, c)

====
